---------------------------- MODULE Spec2Model ----------------------------
(***************************************************************************)
(* The concurrent log pipeline of snakeLoggerFile.                         *)
(*                                                                         *)
(* The repository holds three snapshots of the package:                    *)
(*   "jsonsink"  src/snakeLogger.go lines 1-278   (text sink + JSON sink,  *)
(*               files routed by game id)                                  *)
(*   "idfile"    src/snakeLogger.go lines 280-479 (text sink, files routed *)
(*               by game id)                                               *)
(*   "namefile"  src/unnamed/part_000             (text sink, ReportLevel, *)
(*               files routed by snake name)                               *)
(* A behaviour runs one of them; the variable snap says which.             *)
(*                                                                         *)
(* Strings are TLA+ strings.  An instant is the number t of the logging    *)
(* call that captured it, read as t nanoseconds after the epoch.           *)
(***************************************************************************)
EXTENDS Integers, Sequences, FiniteSets, TLC

VARIABLES
    snap,        \* the snapshot of the package that is running
    home,        \* the value of the environment variable HOME
    proc,        \* "running", "fatal" (log.Fatal), "panic" (runtime panic)
    constructed, \* NewLogger has returned
    levelArg,    \* the level string NewLogger was called with
    logger,      \* the SnakeLogger the owner holds
    nupd,        \* how many context updates the owner has made
    tasks,       \* the goroutines spawned by the logging methods, in call order
    sendq,       \* writeChan's queue of blocked senders (indices of tasks)
    wpc,         \* writeToFile: "setup","recv","open","write","close","stopped"
    basedir,     \* writeToFile's basedir
    m,           \* writeToFile's loop variable m
    filename,    \* writeToFile's filename
    fopen,       \* writeToFile holds an open *os.File
    files,       \* the file system: path -> sequence of the byte strings written
    received,    \* history: the records writeToFile received, in order
    written,     \* history: [file, rec] of every successful Write, in order
    jpc,         \* writeJSONToFile: "none" (not started), "setup", "recv", "open",
                 \* "write", "close", "stopped"
    jsendq,      \* writeJSONChan's queue of blocked senders (the records they hold)
    jm,          \* writeJSONToFile's loop variable m
    jfopen,      \* writeJSONToFile holds an open *os.File
    jreceived,   \* history: the records writeJSONToFile received, in order
    diag         \* what was printed to the diagnostic stream (kinds)

vars == <<snap, home, proc, constructed, levelArg, logger, nupd, tasks, sendq, wpc,
          basedir, m, filename, fopen, files, received, written, jpc, jsendq, jm,
                   jfopen, jreceived, diag>>

---------------------------------------------------------------------------
(* Bounds and input sets *)

MaxCalls == 2

MaxUpdates == 1

StressCalls == 3

Turns == {0, 1}

Snapshots == {"jsonsink", "idfile", "namefile"}

Homes == {"", "/home/snake"}

LevelArgs == {"debug", "info", "warn", "error", "report", "null", "DEBUG"}

Ids == {"", "g1"}

Funcs == {"move"}

Names == {"", "bob"}

Msgs == {"boom", "GENERIC go", "GENERIC"}

---------------------------------------------------------------------------
(* The level enum and its string table *)

DebugLevel == 0

InfoLevel == 1

WarnLevel == 2

ErrorLevel == 3

ReportLevel == 4

NullLevel(s) == IF s = "namefile" THEN 5 ELSE 4

levelMap(s) ==
    IF s = "namefile"
    THEN (DebugLevel :> "debug") @@ (InfoLevel :> "info") @@ (WarnLevel :> "warn")
         @@ (ErrorLevel :> "error") @@ (NullLevel(s) :> "null")
         @@ (ReportLevel :> "report")
    ELSE (DebugLevel :> "debug") @@ (InfoLevel :> "info") @@ (WarnLevel :> "warn")
         @@ (ErrorLevel :> "error") @@ (NullLevel(s) :> "null")

\* The levels that have a logging method (Debug/Debugf, ...).
MethodLevels(s) ==
    IF s = "namefile"
    THEN {DebugLevel, InfoLevel, WarnLevel, ErrorLevel, ReportLevel}
    ELSE {DebugLevel, InfoLevel, ErrorLevel}

---------------------------------------------------------------------------
(* Pure functions *)

\* strings.HasPrefix
HasPrefix(s, p) == Len(s) >= Len(p) /\ SubSeq(s, 1, Len(p)) = p

\* The slice expression msg[8:] is legal iff 8 <= len(msg).
SliceFrom8Panics(msg) == Len(msg) < 8

SliceFrom8(msg) == SubSeq(msg, 9, Len(msg))

\* fmt.Sprintf for the formats "%s" and "<text>%s" with one string argument.
Sprintf(format, arg) == SubSeq(format, 1, Len(format) - 2) \o arg

\* t.Format("2006-01-02T15:04:05.000000000") for the instant t ns after the
\* epoch, t < 10.
Format(t) == "1970-01-01T00:00:00.00000000" \o ToString(t)

\* t.UnixNano()
UnixNano(t) == t

\* The zero values of the structs.
ZeroLog ==
    [ID |-> "", Sev |-> "", Msg |-> "", Timestamp |-> "", UnixTimeStamp |-> 0,
     Turn |-> 0, Function |-> "", SnakeName |-> ""]

ZeroLogger ==
    [level |-> 0, isNull |-> FALSE, id |-> "", currentFunc |-> "",
     currentTurn |-> 0, name |-> ""]

\* Mutant: the level string is matched without regard to case.
NewLoggerAnyCase(s, level) ==
    LET lower == IF level = "DEBUG" THEN "debug" ELSE level
        hit   == {l \in DOMAIN levelMap(s) : levelMap(s)[l] = lower}
    IN  [ZeroLogger EXCEPT !.level = IF hit = {} THEN InfoLevel
                                    ELSE CHOOSE l \in hit : TRUE]

\* NewLogger: level Info unless the string is a value of levelMap.
NewLoggerValue(s, level) ==
    LET hit == {l \in DOMAIN levelMap(s) : levelMap(s)[l] = level}
    IN  [ZeroLogger EXCEPT !.level = IF hit = {} THEN InfoLevel
                                    ELSE CHOOSE l \in hit : TRUE]

\* Mutant: a call at the threshold itself is dropped too.
SuppressedTies(lg, level) == lg.level >= level

\* Mutant: the comparison is off by one, a call one level below passes.
SuppressedOffByOne(lg, level) == lg.level > level + 1

\* parseLog's filter: the record is dropped iff s.level > level.
Suppressed(lg, level) == lg.level > level

\* Mutant: the severity name is read one entry further in the table.
BuildLogShifted(s, lg, level, msg, t) ==
    [ID |-> lg.id, Sev |-> levelMap(s)[level + 1], Msg |-> msg,
     Timestamp |-> IF s = "idfile" THEN "" ELSE Format(t),
     UnixTimeStamp |-> UnixNano(t),
     Turn |-> IF s = "idfile" THEN 0 ELSE lg.currentTurn,
     Function |-> IF s = "idfile" THEN "" ELSE lg.currentFunc,
     SnakeName |-> IF s = "namefile" THEN lg.name ELSE ""]

\* Mutant: the context is the one the Logger was constructed with.
BuildLogStale(s, lg, level, msg, t) ==
    [ID |-> ZeroLogger.id, Sev |-> levelMap(s)[level], Msg |-> msg,
     Timestamp |-> IF s = "idfile" THEN "" ELSE Format(t),
     UnixTimeStamp |-> UnixNano(t),
     Turn |-> ZeroLogger.currentTurn,
     Function |-> ZeroLogger.currentFunc,
     SnakeName |-> ZeroLogger.name]

\* parseLog's struct literal.  The jsonsink snapshot has no SnakeName, the
\* idfile snapshot has only ID, Sev, Msg and the instant (Time).
BuildLog(s, lg, level, msg, t) ==
    [ID |-> lg.id, Sev |-> levelMap(s)[level], Msg |-> msg,
     Timestamp |-> IF s = "idfile" THEN "" ELSE Format(t),
     UnixTimeStamp |-> UnixNano(t),
     Turn |-> IF s = "idfile" THEN 0 ELSE lg.currentTurn,
     Function |-> IF s = "idfile" THEN "" ELSE lg.currentFunc,
     SnakeName |-> IF s = "namefile" THEN lg.name ELSE ""]

\* parseLog's GENERIC override, for a message whose slice is legal.
GenericOverride(log, msg) ==
    IF HasPrefix(msg, "GENERIC")
    THEN [log EXCEPT !.Msg = SliceFrom8(msg), !.ID = ""]
    ELSE log

\* writeToFile's choice of the directory and of the file.
BaseDir(h) == (IF h = "" THEN "/tmp" ELSE h) \o "/battlesnakeLogs"

\* Mutant: every record goes to the generic file.
RouteAllGeneric(s, base, rec) == base \o "/generic.log"

Route(s, base, rec) ==
    IF s = "namefile"
    THEN IF rec.SnakeName = "" THEN base \o "generic.log"
         ELSE base \o "/" \o rec.SnakeName \o ".log"
    ELSE IF rec.ID = "" THEN base \o "/generic.log"
         ELSE base \o "/game-" \o rec.ID \o ".log"

\* LogData.String
String(s, l) ==
    IF s = "namefile"
    THEN l.Timestamp \o " " \o l.ID \o " (" \o ToString(l.Turn) \o ") <"
         \o l.Function \o "> [" \o l.Sev \o "] " \o l.Msg \o " \n"
    ELSE ToString(l.UnixTimeStamp) \o " [" \o l.Sev \o "] " \o l.Msg \o " \n"

\* LogData.Bytes
Bytes(s, l) == String(s, l)

\* Mutant: the file is opened with O_TRUNC instead of O_APPEND.
TruncWrite(content, bytes) == <<bytes>>

\* A Write on a file opened with O_APPEND|O_CREATE|O_WRONLY.
AppendWrite(content, bytes) == Append(content, bytes)

---------------------------------------------------------------------------
(* Initial state: the package's init() has made the channels and started   *)
(* the writer goroutines; nothing else has run.                            *)

Init ==
    /\ snap \in Snapshots
    /\ home \in Homes
    /\ proc = "running"
    /\ constructed = FALSE
    /\ levelArg = ""
    /\ logger = ZeroLogger
    /\ nupd = 0
    /\ tasks = <<>>
    /\ sendq = <<>>
    /\ wpc = "setup"
    /\ basedir = ""
    /\ m = ZeroLog
    /\ filename = ""
    /\ fopen = FALSE
    /\ files = <<>>
    /\ received = <<>>
    /\ written = <<>>
    /\ jpc = IF snap = "jsonsink" THEN "setup" ELSE "none"
    /\ jsendq = <<>>
    /\ jm = ZeroLog
    /\ jfopen = FALSE
    /\ jreceived = <<>>
    /\ diag = {}

Running == proc = "running"

---------------------------------------------------------------------------
(* The owner: construction and the context mutators *)

NewLogger(level) ==
    /\ Running
    /\ ~constructed
    /\ constructed' = TRUE
    /\ levelArg' = level
    /\ logger' = NewLoggerValue(snap, level)
    /\ UNCHANGED <<snap, home, proc, nupd, tasks, sendq, wpc, basedir, m, filename,
                   fopen, files, received, written, jpc, jsendq, jm,
                   jfopen, jreceived, diag>>

OwnerFrame ==
    /\ nupd < MaxUpdates
    /\ nupd' = nupd + 1
    /\ UNCHANGED <<snap, home, proc, constructed, levelArg, tasks, sendq, wpc,
                basedir, m, filename, fopen, files, received, written, jpc, jsendq, jm,
                   jfopen, jreceived, diag>>

UpdateID(newid) ==
    /\ Running /\ constructed
    /\ logger' = [logger EXCEPT !.id = newid]
    /\ OwnerFrame

UpdateFunc(f) ==
    /\ Running /\ constructed
    /\ snap # "idfile"
    /\ logger' = [logger EXCEPT !.currentFunc = f]
    /\ OwnerFrame

ResetFunc ==
    /\ Running /\ constructed
    /\ snap # "idfile"
    /\ logger' = [logger EXCEPT !.currentFunc = ""]
    /\ OwnerFrame

UpdateTurn(t) ==
    /\ Running /\ constructed
    /\ snap # "idfile"
    /\ logger' = [logger EXCEPT !.currentTurn = t]
    /\ OwnerFrame

UpdateName(n) ==
    /\ Running /\ constructed
    /\ snap = "namefile"
    /\ logger' = [logger EXCEPT !.name = n]
    /\ OwnerFrame

---------------------------------------------------------------------------
(* The logging methods: capture the instant, render the message, spawn the *)
(* goroutine that runs parseLog, return.                                   *)

\* Mutant: parseLog is called inline, so the call waits for the consumer to
\* take the record.
SpawnInline(level, msg) ==
    /\ Running /\ constructed
    /\ Len(tasks) < MaxCalls
    /\ level \in MethodLevels(snap)
    /\ wpc = "recv" /\ sendq = <<>>
    /\ tasks' = Append(tasks, [level |-> level, msg |-> msg, t |-> Len(tasks) + 1,
                               pc |-> "spawned", log |-> ZeroLog])
    /\ UNCHANGED <<snap, home, proc, constructed, levelArg, logger, nupd, sendq, wpc,
                   basedir, m, filename, fopen, files, received, written, jpc, jsendq, jm,
                   jfopen, jreceived, diag>>

Spawn(level, msg) ==
    /\ Running /\ constructed
    /\ Len(tasks) < MaxCalls
    /\ level \in MethodLevels(snap)
    /\ tasks' = Append(tasks, [level |-> level, msg |-> msg, t |-> Len(tasks) + 1,
                               pc |-> "spawned", log |-> ZeroLog])
    /\ UNCHANGED <<snap, home, proc, constructed, levelArg, logger, nupd, sendq, wpc,
                   basedir, m, filename, fopen, files, received, written, jpc, jsendq, jm,
                   jfopen, jreceived, diag>>

\* Debug, Info, Warn, Error, Report
Log(level, msg) == Spawn(level, msg)

\* Debugf, Infof, Warnf, Errorf, Reportf
Logf(level, format, arg) == Spawn(level, Sprintf(format, arg))

---------------------------------------------------------------------------
(* parseLog, run by the spawned goroutine i *)

TaskFrame ==
    UNCHANGED <<snap, home, constructed, levelArg, logger, nupd, wpc, basedir, m,
                filename, fopen, files, received, written, jpc, jsendq, jm,
                   jfopen, jreceived, diag>>

\* Mutant: the goroutines run in the order of their calls.
ParseLogInCallOrder(i) ==
    /\ Running
    /\ tasks[i].pc = "spawned"
    /\ \A k \in 1..(i - 1) : tasks[k].pc # "spawned"
    /\ LET t   == tasks[i]
           log == BuildLog(snap, logger, t.level, t.msg, t.t)
       IN  IF Suppressed(logger, t.level)
           THEN /\ tasks' = [tasks EXCEPT ![i].pc = "returned"]
                /\ UNCHANGED <<proc, sendq>>
           ELSE IF HasPrefix(t.msg, "GENERIC") /\ SliceFrom8Panics(t.msg)
           THEN /\ proc' = "panic"
                /\ tasks' = [tasks EXCEPT ![i].pc = "panicked", ![i].log = log]
                /\ UNCHANGED sendq
           ELSE /\ tasks' = [tasks EXCEPT ![i].pc = "send",
                                          ![i].log = GenericOverride(log, t.msg)]
                /\ sendq' = Append(sendq, i)
                /\ UNCHANGED proc
    /\ TaskFrame

\* Mutant: the record is sent on writeJSONChan as well.
ParseLogTee(i) ==
    /\ Running
    /\ tasks[i].pc = "spawned"
    /\ LET t   == tasks[i]
           log == BuildLog(snap, logger, t.level, t.msg, t.t)
       IN  IF Suppressed(logger, t.level)
           THEN /\ tasks' = [tasks EXCEPT ![i].pc = "returned"]
                /\ UNCHANGED <<proc, sendq, jsendq>>
           ELSE IF HasPrefix(t.msg, "GENERIC") /\ SliceFrom8Panics(t.msg)
           THEN /\ proc' = "panic"
                /\ tasks' = [tasks EXCEPT ![i].pc = "panicked", ![i].log = log]
                /\ UNCHANGED <<sendq, jsendq>>
           ELSE /\ tasks' = [tasks EXCEPT ![i].pc = "send",
                                          ![i].log = GenericOverride(log, t.msg)]
                /\ sendq' = Append(sendq, i)
                /\ jsendq' = IF snap = "jsonsink"
                             THEN Append(jsendq, GenericOverride(log, t.msg))
                             ELSE jsendq
                /\ UNCHANGED proc
    /\ UNCHANGED <<snap, home, constructed, levelArg, logger, nupd, wpc, basedir, m,
                   filename, fopen, files, received, written, jpc, jm, jfopen,
                   jreceived, diag>>

\* Mutant: the producer goroutine appends its record to the log file itself.
ParseLogWriting(i) ==
    /\ Running
    /\ tasks[i].pc = "spawned"
    /\ LET t   == tasks[i]
           log == BuildLog(snap, logger, t.level, t.msg, t.t)
           rec == GenericOverride(log, t.msg)
           f   == Route(snap, BaseDir(home), rec)
       IN  IF Suppressed(logger, t.level)
           THEN /\ tasks' = [tasks EXCEPT ![i].pc = "returned"]
                /\ UNCHANGED <<proc, files>>
           ELSE IF HasPrefix(t.msg, "GENERIC") /\ SliceFrom8Panics(t.msg)
           THEN /\ proc' = "panic"
                /\ tasks' = [tasks EXCEPT ![i].pc = "panicked", ![i].log = log]
                /\ UNCHANGED files
           ELSE /\ tasks' = [tasks EXCEPT ![i].pc = "done", ![i].log = rec]
                /\ files' = IF f \in DOMAIN files
                            THEN [files EXCEPT ![f] = Append(@, Bytes(snap, rec))]
                            ELSE files @@ (f :> <<Bytes(snap, rec)>>)
                /\ UNCHANGED proc
    /\ UNCHANGED <<snap, home, constructed, levelArg, logger, nupd, sendq, wpc,
                   basedir, m, filename, fopen, received, written, jpc, jsendq, jm,
                   jfopen, jreceived, diag>>

\* Mutant: a non-blocking send; the record is dropped unless the consumer is
\* waiting for it.
ParseLogDropping(i) ==
    /\ Running
    /\ tasks[i].pc = "spawned"
    /\ LET t   == tasks[i]
           log == BuildLog(snap, logger, t.level, t.msg, t.t)
       IN  IF Suppressed(logger, t.level)
           THEN /\ tasks' = [tasks EXCEPT ![i].pc = "returned"]
                /\ UNCHANGED <<proc, sendq>>
           ELSE IF HasPrefix(t.msg, "GENERIC") /\ SliceFrom8Panics(t.msg)
           THEN /\ proc' = "panic"
                /\ tasks' = [tasks EXCEPT ![i].pc = "panicked", ![i].log = log]
                /\ UNCHANGED sendq
           ELSE IF wpc = "recv" /\ sendq = <<>>
           THEN /\ tasks' = [tasks EXCEPT ![i].pc = "send",
                                          ![i].log = GenericOverride(log, t.msg)]
                /\ sendq' = Append(sendq, i)
                /\ UNCHANGED proc
           ELSE /\ tasks' = [tasks EXCEPT ![i].pc = "done",
                                          ![i].log = GenericOverride(log, t.msg)]
                /\ UNCHANGED <<proc, sendq>>
    /\ UNCHANGED <<snap, home, constructed, levelArg, logger, nupd, wpc, basedir, m,
                   filename, fopen, files, received, written, jpc, jsendq, jm,
                   jfopen, jreceived, diag>>

\* One run of parseLog up to its send: the filter (which reads only s.level,
\* never written after NewLogger), the struct literal, the GENERIC override
\* and the arrival at the send on writeChan.
ParseLog(i) ==
    /\ Running
    /\ tasks[i].pc = "spawned"
    /\ LET t   == tasks[i]
           log == BuildLog(snap, logger, t.level, t.msg, t.t)
       IN  IF Suppressed(logger, t.level)
           THEN /\ tasks' = [tasks EXCEPT ![i].pc = "returned"]
                /\ UNCHANGED <<proc, sendq>>
           ELSE IF HasPrefix(t.msg, "GENERIC") /\ SliceFrom8Panics(t.msg)
           THEN /\ proc' = "panic"
                /\ tasks' = [tasks EXCEPT ![i].pc = "panicked", ![i].log = log]
                /\ UNCHANGED sendq
           ELSE /\ tasks' = [tasks EXCEPT ![i].pc = "send",
                                          ![i].log = GenericOverride(log, t.msg)]
                /\ sendq' = Append(sendq, i)
                /\ UNCHANGED proc
    /\ TaskFrame

---------------------------------------------------------------------------
(* writeToFile, the consumer of writeChan *)

WriterFrame ==
    UNCHANGED <<snap, home, constructed, levelArg, logger, nupd, jpc, jsendq, jm, jfopen, jreceived>>

\* Directory setup; an unset HOME is reported and replaced by /tmp; os.Mkdir
\* succeeds, or fails with ErrExist, or fails otherwise (printed, not fatal).
Setup(mkdir) ==
    /\ Running
    /\ wpc = "setup"
    /\ basedir' = BaseDir(home)
    /\ diag' = diag \cup (IF home = "" THEN {"nohome"} ELSE {})
                     \cup (IF mkdir = "error" THEN {"mkdir"} ELSE {})
    /\ wpc' = "recv"
    /\ UNCHANGED <<proc, tasks, sendq, m, filename, fopen, files, received, written>>
    /\ WriterFrame

\* The rendezvous: the first blocked sender hands its record to the range
\* loop, which picks the file name.
Receive ==
    /\ Running
    /\ wpc = "recv"
    /\ sendq # <<>>
    /\ LET i == Head(sendq)
       IN  /\ m' = tasks[i].log
           /\ filename' = Route(snap, basedir, tasks[i].log)
           /\ received' = Append(received, tasks[i].log)
           /\ tasks' = [tasks EXCEPT ![i].pc = "done"]
    /\ sendq' = Tail(sendq)
    /\ wpc' = "open"
    /\ UNCHANGED <<proc, basedir, fopen, files, written, diag>>
    /\ WriterFrame

OpenOk ==
    /\ Running
    /\ wpc = "open"
    /\ files' = IF filename \in DOMAIN files THEN files ELSE files @@ (filename :> <<>>)
    /\ fopen' = TRUE
    /\ wpc' = "write"
    /\ UNCHANGED <<proc, tasks, sendq, basedir, m, filename, received, written, diag>>
    /\ WriterFrame

\* log.Fatal: print and exit the process.
OpenFail ==
    /\ Running
    /\ wpc = "open"
    /\ proc' = "fatal"
    /\ diag' = diag \cup {"open"}
    /\ UNCHANGED <<tasks, sendq, wpc, basedir, m, filename, fopen, files, received,
                   written>>
    /\ WriterFrame

WriteOk ==
    /\ Running
    /\ wpc = "write"
    /\ files' = [files EXCEPT ![filename] = AppendWrite(@, Bytes(snap, m))]
    /\ written' = Append(written, [file |-> filename, rec |-> m])
    /\ wpc' = "close"
    /\ UNCHANGED <<proc, tasks, sendq, basedir, m, filename, fopen, received, diag>>
    /\ WriterFrame

\* Mutant: skip-and-continue; after a failed Write the file is closed and the
\* loop goes on to the next record.
WriteFailSkipping ==
    /\ Running
    /\ wpc = "write"
    /\ diag' = diag \cup {"write"}
    /\ fopen' = FALSE
    /\ wpc' = "recv"
    /\ UNCHANGED <<proc, tasks, sendq, basedir, m, filename, files, received, written>>
    /\ WriterFrame

\* Print and break: the loop is left, the file is not closed.
WriteFail ==
    /\ Running
    /\ wpc = "write"
    /\ diag' = diag \cup {"write"}
    /\ wpc' = "stopped"
    /\ UNCHANGED <<proc, tasks, sendq, basedir, m, filename, fopen, files, received,
                   written>>
    /\ WriterFrame

\* Mutant: a failed Close ends the loop like a failed Write.
CloseBreaking(ok) ==
    /\ Running
    /\ wpc = "close"
    /\ fopen' = FALSE
    /\ diag' = IF ok THEN diag ELSE diag \cup {"close"}
    /\ wpc' = IF ok THEN "recv" ELSE "stopped"
    /\ UNCHANGED <<proc, tasks, sendq, basedir, m, filename, files, received, written>>
    /\ WriterFrame

\* f.Close(); an error is printed and the loop goes on.
Close(ok) ==
    /\ Running
    /\ wpc = "close"
    /\ fopen' = FALSE
    /\ diag' = IF ok THEN diag ELSE diag \cup {"close"}
    /\ wpc' = "recv"
    /\ UNCHANGED <<proc, tasks, sendq, basedir, m, filename, files, received, written>>
    /\ WriterFrame

---------------------------------------------------------------------------
(* writeJSONToFile, the consumer of writeJSONChan (jsonsink snapshot) *)

JSONSetup(mkdir) ==
    /\ Running
    /\ jpc = "setup"
    /\ jpc' = "recv"
    /\ diag' = diag \cup (IF home = "" THEN {"nohomeJSON"} ELSE {})
                     \cup (IF mkdir = "error" THEN {"mkdirJSON"} ELSE {})
    /\ UNCHANGED <<snap, home, proc, constructed, levelArg, logger, nupd, tasks, sendq,
                   wpc, basedir, m, filename, fopen, files, received, written,
                   jsendq, jm, jfopen, jreceived>>

\* json.Marshal of a LogData of the jsonsink snapshot.  Every field is a
\* string or an integer, so Marshal returns no error and the branch at lines
\* 183-186 is never taken.
Marshal(rec) ==
    "{\"ID\":\"" \o rec.ID \o "\",\"Sev\":\"" \o rec.Sev \o "\",\"Msg\":\"" \o rec.Msg
    \o "\",\"Timestamp\":\"" \o rec.Timestamp
    \o "\",\"UnixTimeStamp\":" \o ToString(rec.UnixTimeStamp)
    \o ",\"Turn\":" \o ToString(rec.Turn)
    \o ",\"Function\":\"" \o rec.Function \o "\"}"

\* writeJSONToFile's basedir and filename.
JSONBaseDir(h) == (IF h = "" THEN "/tmp" ELSE h) \o "/battlesnakeJSON"

JSONFile(h) == JSONBaseDir(h) \o "/battlesnake.json"

\* What the actions of writeJSONToFile's loop leave alone.
JSONFrame ==
    UNCHANGED <<snap, home, proc, constructed, levelArg, logger, nupd, tasks, sendq,
                wpc, basedir, m, filename, fopen, received, written>>

\* for m := range c : the rendezvous with the first blocked sender.
JSONReceive ==
    /\ Running
    /\ jpc = "recv"
    /\ jsendq # <<>>
    /\ jm' = Head(jsendq)
    /\ jsendq' = Tail(jsendq)
    /\ jreceived' = Append(jreceived, Head(jsendq))
    /\ jpc' = "open"
    /\ UNCHANGED <<jfopen, files, diag>>
    /\ JSONFrame

JSONOpenOk ==
    /\ Running
    /\ jpc = "open"
    /\ jfopen' = TRUE
    /\ files' = IF JSONFile(home) \in DOMAIN files THEN files
                ELSE files @@ (JSONFile(home) :> <<>>)
    /\ jpc' = "write"
    /\ UNCHANGED <<jsendq, jm, jreceived, diag>>
    /\ JSONFrame

\* The open fails: the error is printed and the loop is left.
JSONOpenFail ==
    /\ Running
    /\ jpc = "open"
    /\ diag' = diag \cup {"openJSON"}
    /\ jpc' = "stopped"
    /\ UNCHANGED <<jsendq, jm, jfopen, jreceived, files>>
    /\ JSONFrame

JSONWriteOk ==
    /\ Running
    /\ jpc = "write"
    /\ files' = [files EXCEPT ![JSONFile(home)] = AppendWrite(@, Marshal(jm))]
    /\ jpc' = "close"
    /\ UNCHANGED <<jsendq, jm, jfopen, jreceived, diag>>
    /\ JSONFrame

\* The write fails: the error is printed and the loop is left, f is not closed.
JSONWriteFail ==
    /\ Running
    /\ jpc = "write"
    /\ diag' = diag \cup {"writeJSON"}
    /\ jpc' = "stopped"
    /\ UNCHANGED <<jsendq, jm, jfopen, jreceived, files>>
    /\ JSONFrame

JSONClose(ok) ==
    /\ Running
    /\ jpc = "close"
    /\ jfopen' = FALSE
    /\ diag' = IF ok THEN diag ELSE diag \cup {"closeJSON"}
    /\ jpc' = "recv"
    /\ UNCHANGED <<jsendq, jm, jreceived, files>>
    /\ JSONFrame

---------------------------------------------------------------------------

MkdirOutcomes == {"ok", "exists", "error"}

Next ==
    \/ \E level \in LevelArgs : NewLogger(level)
    \/ \E newid \in Ids : UpdateID(newid)
    \/ \E f \in Funcs : UpdateFunc(f)
    \/ ResetFunc
    \/ \E t \in Turns : UpdateTurn(t)
    \/ \E n \in Names : UpdateName(n)
    \/ \E level \in MethodLevels(snap), msg \in Msgs : Log(level, msg)
    \/ \E level \in MethodLevels(snap) : Logf(level, "GENERIC %s", "go")
    \/ \E i \in 1..Len(tasks) : ParseLog(i)
    \/ \E mkdir \in MkdirOutcomes : Setup(mkdir)
    \/ Receive
    \/ OpenOk
    \/ OpenFail
    \/ WriteOk
    \/ WriteFail
    \/ \E ok \in BOOLEAN : Close(ok)
    \/ \E mkdir \in MkdirOutcomes : JSONSetup(mkdir)

Spec == Init /\ [][Next]_vars

---------------------------------------------------------------------------
(* The stress run: StressCalls logging calls have returned, each has       *)
(* spawned its goroutine, and none of the goroutines has run yet.  The     *)
(* file system does not fail (no OpenFail, no WriteFail).  The scheduler   *)
(* runs every goroutine that can take a step.                              *)

StressLevelArgs == {"info"}

StressLevels == {InfoLevel, ErrorLevel}

StressInit ==
    /\ snap \in Snapshots
    /\ home \in Homes
    /\ proc = "running"
    /\ constructed = TRUE
    /\ levelArg \in StressLevelArgs
    /\ logger = NewLoggerValue(snap, levelArg)
    /\ nupd = 0
    /\ \E lv \in [1..StressCalls -> StressLevels], ms \in [1..StressCalls -> Msgs] :
          tasks = [i \in 1..StressCalls |->
                      [level |-> lv[i], msg |-> ms[i], t |-> i,
                       pc |-> "spawned", log |-> ZeroLog]]
    /\ sendq = <<>>
    /\ wpc = "setup"
    /\ basedir = ""
    /\ m = ZeroLog
    /\ filename = ""
    /\ fopen = FALSE
    /\ files = <<>>
    /\ received = <<>>
    /\ written = <<>>
    /\ jpc = IF snap = "jsonsink" THEN "setup" ELSE "none"
    /\ jsendq = <<>>
    /\ jm = ZeroLog
    /\ jfopen = FALSE
    /\ jreceived = <<>>
    /\ diag = {}

StressNext ==
    \/ \E i \in 1..Len(tasks) : ParseLog(i)
    \/ \E mkdir \in MkdirOutcomes : Setup(mkdir)
    \/ Receive
    \/ OpenOk
    \/ WriteOk
    \/ \E ok \in BOOLEAN : Close(ok)
    \/ \E mkdir \in MkdirOutcomes : JSONSetup(mkdir)

StressFairness ==
    /\ \A i \in 1..StressCalls : WF_vars(ParseLog(i))
    /\ WF_vars(\E mkdir \in MkdirOutcomes : Setup(mkdir))
    /\ WF_vars(Receive)
    /\ WF_vars(OpenOk)
    /\ WF_vars(WriteOk)
    /\ WF_vars(\E ok \in BOOLEAN : Close(ok))

StressSpec == StressInit /\ [][StressNext]_vars /\ StressFairness

---------------------------------------------------------------------------
(* The sinks side by side.  writeJSONToFile(c) consumes whatever is sent on *)
(* c; here, in the snapshot that starts it, goroutines of the package send *)
(* up to MaxJSONSends records on writeJSONChan while the text sink serves   *)
(* logging calls.                                                          *)

MaxJSONSends == 2

JSONRecords ==
    {BuildLog("jsonsink", [ZeroLogger EXCEPT !.id = id], InfoLevel, "boom", 1) :
        id \in Ids}

\* writeJSONChan <- rec : the sender blocks in the channel's queue.
JSONSend(rec) ==
    /\ Running
    /\ jpc # "none"
    /\ Len(jsendq) + Len(jreceived) < MaxJSONSends
    /\ jsendq' = Append(jsendq, rec)
    /\ UNCHANGED <<jpc, jm, jfopen, jreceived, files, diag>>
    /\ JSONFrame

JSONInit ==
    /\ snap \in Snapshots
    /\ home \in Homes
    /\ proc = "running"
    /\ constructed = TRUE
    /\ levelArg = "info"
    /\ logger = NewLoggerValue(snap, levelArg)
    /\ nupd = 0
    /\ tasks = <<>>
    /\ sendq = <<>>
    /\ wpc = "setup"
    /\ basedir = ""
    /\ m = ZeroLog
    /\ filename = ""
    /\ fopen = FALSE
    /\ files = <<>>
    /\ received = <<>>
    /\ written = <<>>
    /\ jpc = IF snap = "jsonsink" THEN "setup" ELSE "none"
    /\ jsendq = <<>>
    /\ jm = ZeroLog
    /\ jfopen = FALSE
    /\ jreceived = <<>>
    /\ diag = {}

JSONNext ==
    \/ Log(InfoLevel, "boom")
    \/ \E i \in 1..Len(tasks) : ParseLog(i)
    \/ \E mkdir \in MkdirOutcomes : Setup(mkdir)
    \/ Receive
    \/ OpenOk
    \/ OpenFail
    \/ WriteOk
    \/ WriteFail
    \/ \E ok \in BOOLEAN : Close(ok)
    \/ \E mkdir \in MkdirOutcomes : JSONSetup(mkdir)
    \/ \E rec \in JSONRecords : JSONSend(rec)
    \/ JSONReceive
    \/ JSONOpenOk
    \/ JSONOpenFail
    \/ JSONWriteOk
    \/ JSONWriteFail
    \/ \E ok \in BOOLEAN : JSONClose(ok)

JSONSpec == JSONInit /\ [][JSONNext]_vars

---------------------------------------------------------------------------
(* Vocabulary of the properties *)

TaskIds == 1..Len(tasks)

\* The goroutine has put its record on writeChan: it waits in the channel's
\* queue of senders, or the consumer has taken the record.
Enqueued(i) == tasks[i].pc \in {"send", "done"}

\* The call that captured instant t (instants are call numbers).
CallOf(rec) == tasks[rec.UnixTimeStamp]

\* How a line of a log file begins for a call that captured instant t.
StampText(t) == IF snap = "namefile" THEN Format(t) ELSE ToString(UnixNano(t))

Count(seq, x) == Cardinality({k \in 1..Len(seq) : seq[k] = x})

\* The records of `recs` routed to file f, serialized, in order.
KeyedBytes(recs, f) ==
    LET sel == SelectSeq(recs, LAMBDA r : Route(snap, basedir, r) = f)
    IN  [k \in 1..Len(sel) |-> Bytes(snap, sel[k])]

\* How many of the received records the consumer has finished writing: all
\* of them once the Write has returned, all but the last while that one is
\* being opened or written (or was given up).
NumWritten ==
    IF wpc \in {"open", "write", "stopped"} THEN Len(received) - 1 ELSE Len(received)

\* Every path the consumer has opened or is opening.
OpenedPaths ==
    DOMAIN files \cup (IF wpc \in {"open", "write", "close"} THEN {filename} ELSE {})

---------------------------------------------------------------------------
(* C1: a logging call at severity S on a Logger of threshold T puts a      *)
(* record on the sink channel only if S >= T, and returns without one only *)
(* if S < T (a call with S = T is emitted); with threshold Null nothing is *)
(* ever put on the channel.                                                *)

C1_FilterRule ==
    constructed =>
        /\ \A i \in TaskIds :
              /\ Enqueued(i) => tasks[i].level >= logger.level
              /\ tasks[i].pc = "returned" => tasks[i].level < logger.level
        /\ \A k \in 1..Len(sendq) : tasks[sendq[k]].level >= logger.level
        /\ logger.level = NullLevel(snap) =>
              /\ \A i \in TaskIds : tasks[i].pc \in {"spawned", "returned"}
              /\ sendq = <<>> /\ received = <<>> /\ written = <<>>

C1_Witness ==
    /\ constructed
    /\ \E i, j \in TaskIds :
          /\ tasks[i].level = logger.level /\ tasks[i].pc = "done"
          /\ tasks[j].pc = "returned"
    /\ Len(written) = 1

---------------------------------------------------------------------------
(* C2 as stated: for all s1 <= s2, a call at severity s1 on a Logger of    *)
(* threshold s2 never has a record enqueued or written.                    *)

NoRecordFor(i) ==
    /\ ~Enqueued(i)
    /\ \A k \in 1..Len(sendq) : sendq[k] # i
    /\ \A k \in 1..Len(received) : received[k].UnixTimeStamp # tasks[i].t
    /\ \A k \in 1..Len(written) : written[k].rec.UnixTimeStamp # tasks[i].t
    /\ \A f \in DOMAIN files : \A k \in 1..Len(files[f]) :
          ~HasPrefix(files[f][k], StampText(tasks[i].t) \o " ")

\* C2 as stated (s1 <= s2).
C2_Original ==
    constructed =>
        \A i \in TaskIds : tasks[i].level <= logger.level => NoRecordFor(i)

(* C2 amended: for all s1 < s2 (strictly), a call at severity s1 on a      *)
(* Logger of threshold s2 never has a record enqueued on the channel or    *)
(* written to a file.                                                      *)

C2_StrictlyBelowSuppressed ==
    constructed =>
        \A i \in TaskIds : tasks[i].level < logger.level => NoRecordFor(i)

C2_Witness ==
    /\ constructed
    /\ \E i, j \in TaskIds :
          /\ tasks[i].level < logger.level /\ tasks[i].pc = "returned"
          /\ tasks[j].pc = "done" /\ tasks[j].t > tasks[i].t
    /\ Len(written) = 1

---------------------------------------------------------------------------
(* C3 as stated: every call that passes the filter with a message that     *)
(* begins with GENERIC, of any length, completes and enqueues a record     *)
(* with empty id and the message without its first 8 characters.           *)

C3_GenericAlwaysEnqueued ==
    \A i \in TaskIds :
        (tasks[i].pc \notin {"spawned", "returned"} /\ HasPrefix(tasks[i].msg, "GENERIC"))
        => /\ Enqueued(i)
           /\ tasks[i].log.ID = ""
           /\ tasks[i].log.Msg = SubSeq(tasks[i].msg, 9, Len(tasks[i].msg))

---------------------------------------------------------------------------
(* C4 as stated: a record made from a GENERIC-prefixed message is written  *)
(* to the generic log file, whatever the Logger's id and name.             *)

IsGenericFile(f) ==
    Len(f) >= Len("generic.log")
    /\ SubSeq(f, Len(f) - Len("generic.log") + 1, Len(f)) = "generic.log"

\* C4: every write of a record made from a GENERIC message is to a generic.log.
C4_GenericGoesToGenericFile ==
    \A k \in 1..Len(written) :
        HasPrefix(CallOf(written[k].rec).msg, "GENERIC") => IsGenericFile(written[k].file)

---------------------------------------------------------------------------
(* C5: the consumer writes the records in the order it received them: the  *)
(* successful writes are, in order, the received records (at most the last *)
(* one not yet written), and every file holds exactly the records of its   *)
(* routing key that the consumer has finished with, in hand-over order.    *)

C5_WriteOrder ==
    /\ Len(written) <= Len(received)
    /\ Len(received) - Len(written) <= 1
    /\ \A k \in 1..Len(written) : written[k].rec = received[k]
    /\ wpc = "recv" => Len(written) = Len(received)
    /\ \A f \in DOMAIN files :
          files[f] = KeyedBytes(SubSeq(received, 1, NumWritten), f)

C5_Witness ==
    /\ \E f \in DOMAIN files : Len(files[f]) >= 2
    /\ wpc = "recv"

---------------------------------------------------------------------------
(* C6: when every one of the concurrently spawned producer goroutines has  *)
(* put its record on the sink channel, the run reaches, and stays in, a    *)
(* state where the consumer has written exactly that many records: each    *)
(* producer's record is in the files exactly once.                         *)

AllSubmitted == \A i \in TaskIds : Enqueued(i)

AllFileLines == UNION {{<<f, k>> : k \in 1..Len(files[f])} : f \in DOMAIN files}

AllWrittenOnce ==
    /\ Len(written) = Len(tasks)
    /\ Cardinality(AllFileLines) = Len(tasks)
    /\ \A i \in TaskIds :
          /\ tasks[i].pc = "done"
          /\ Cardinality({fk \in AllFileLines :
                             files[fk[1]][fk[2]] = Bytes(snap, tasks[i].log)}) = 1

\* C6: all submitted leads to all written exactly once, for good.
C6_AllSubmittedWritten == [](AllSubmitted => <>[]AllWrittenOnce)

C6_Witness ==
    /\ Len(tasks) = StressCalls
    /\ AllSubmitted
    /\ AllWrittenOnce

---------------------------------------------------------------------------
(* C7: under id-based routing (the jsonsink and idfile snapshots) a record *)
(* with non-empty id x is written to exactly <basedir>/game-<x>.log, one   *)
(* with empty id to exactly <basedir>/generic.log, and to no other file.   *)

IdFile(rec) ==
    IF rec.ID = "" THEN basedir \o "/generic.log"
    ELSE basedir \o "/game-" \o rec.ID \o ".log"

\* C7: the file is a function of the record's ID, and the only file it is in.
C7_IdRouting ==
    snap # "namefile" =>
        /\ wpc \in {"open", "write", "close"} => filename = IdFile(m)
        /\ \A k \in 1..Len(written) :
              /\ written[k].file = IdFile(written[k].rec)
              /\ \A f \in DOMAIN files :
                    Count(files[f], Bytes(snap, written[k].rec))
                        = IF f = IdFile(written[k].rec) THEN 1 ELSE 0

C7_Witness ==
    /\ snap # "namefile"
    /\ \E j, k \in 1..Len(written) :
          /\ written[j].rec.ID = "g1" /\ written[j].file = basedir \o "/game-g1.log"
          /\ written[k].rec.ID = "" /\ written[k].file = basedir \o "/generic.log"

---------------------------------------------------------------------------
(* C8 as stated: every file a sink writer opens, under every routing       *)
(* branch, is the base directory followed by a path separator and the      *)
(* routed file name.                                                       *)

C8_OpenedInsideBaseDir ==
    \A f \in OpenedPaths : HasPrefix(f, basedir \o "/")

---------------------------------------------------------------------------
(* C9: a logging call never waits for the consumer: while the process runs *)
(* and a Logger exists, a call can complete in every state, whatever the   *)
(* consumer is doing and however many producers are waiting to hand over.  *)

C9_CallNeverWaits ==
    (Running /\ constructed /\ Len(tasks) < MaxCalls)
        => ENABLED (\E level \in MethodLevels(snap), msg \in Msgs : Log(level, msg))

\* A call has returned (its goroutine has not run yet) although the consumer
\* has stopped for good.
C9_Witness ==
    /\ wpc = "stopped"
    /\ Len(tasks) >= 2
    /\ tasks[Len(tasks)].pc = "spawned"
    /\ \E j \in TaskIds : tasks[j].pc = "done"

---------------------------------------------------------------------------
(* C10 as stated: NewLogger's threshold is the enum level named by the     *)
(* level string for each of debug, info, warn, error, report and null, and *)
(* Info for any other string.                                              *)

SixNames == {"debug", "info", "warn", "error", "report", "null"}

ExpectedLevel(name) ==
    CASE name = "debug"  -> DebugLevel
      [] name = "info"   -> InfoLevel
      [] name = "warn"   -> WarnLevel
      [] name = "error"  -> ErrorLevel
      [] name = "null"   -> NullLevel(snap)
      [] name = "report" -> IF snap = "namefile" THEN ReportLevel ELSE InfoLevel
      [] OTHER           -> InfoLevel

---------------------------------------------------------------------------
(* C11 *)

\* An open failure of either sink has been printed.
OpenFailed == "open" \in diag \/ "openJSON" \in diag

---------------------------------------------------------------------------
(* C12 *)

\* The files whose state (existence or content) the step changes.
Touched == {f \in DOMAIN files' : f \notin DOMAIN files \/ files'[f] # files[f]}

\* A step of writeToFile inside the open/write/close cycle of the record m,
\* or of writeJSONToFile inside the cycle of the record jm: no producer
\* goroutine and not the other consumer moves in it.
TextCycleStep ==
    /\ wpc \in {"open", "write", "close"} /\ wpc' # wpc
    /\ tasks' = tasks /\ sendq' = sendq
    /\ jpc' = jpc /\ jfopen' = jfopen

JSONCycleStep ==
    /\ jpc \in {"open", "write", "close"} /\ jpc' # jpc
    /\ tasks' = tasks /\ sendq' = sendq
    /\ wpc' = wpc /\ fopen' = fopen

\* C12: every log file is opened, written and closed only by the single
\* consumer of the sink that owns it.  A step that touches a file or a file
\* handle is a cycle step of the owning consumer on its current file; the text
\* sink's file is never the JSON sink's file; each channel is dequeued only
\* by its own consumer, waiting in its loop.
C12_SingleWriter ==
    [][ /\ \A f \in Touched :
              \/ TextCycleStep /\ f = filename /\ f # JSONFile(home)
              \/ JSONCycleStep /\ f = JSONFile(home) /\ jpc # "none"
        /\ fopen' # fopen => TextCycleStep
        /\ jfopen' # jfopen => JSONCycleStep
        /\ received' # received => wpc = "recv" /\ wpc' = "open" /\ jpc' = jpc
        /\ jreceived' # jreceived => jpc = "recv" /\ jpc' = "open" /\ wpc' = wpc
        /\ (wpc' \in {"open", "write", "close"} /\ jpc' \in {"open", "write", "close"})
              => filename' # JSONFile(home)
      ]_vars

\* Both consumers are inside a cycle at once, each holding its own file.
C12_Witness ==
    /\ wpc = "write" /\ fopen /\ jpc = "close" /\ jfopen
    /\ Len(files[JSONFile(home)]) = 1 /\ Len(written) = 1

---------------------------------------------------------------------------
(* C13 *)

\* The step leaves the files of the text sink, resp. the JSON file, as they are.
TextFilesSame ==
    \A f \in DOMAIN files' \ {JSONFile(home)} : f \in DOMAIN files /\ files'[f] = files[f]

JSONFileSame ==
    JSONFile(home) \in DOMAIN files' =>
        JSONFile(home) \in DOMAIN files /\ files'[JSONFile(home)] = files[JSONFile(home)]

\* C13: after a failure to write a dequeued record to its opened file the
\* sink's consumer has stopped: it dequeues no further record and the sink
\* writes nothing more, and the failure itself leaves the process running.
C13_WriteFailureStops ==
    [][ /\ ("write" \in diag' /\ "write" \notin diag) =>
              wpc = "write" /\ wpc' = "stopped" /\ proc' = "running"
        /\ "write" \in diag =>
              /\ wpc = "stopped" /\ wpc' = "stopped"
              /\ received' = received /\ written' = written /\ Len(sendq') >= Len(sendq)
              /\ TextFilesSame
        /\ ("writeJSON" \in diag' /\ "writeJSON" \notin diag) =>
              jpc = "write" /\ jpc' = "stopped" /\ proc' = "running"
        /\ "writeJSON" \in diag =>
              /\ jpc = "stopped" /\ jpc' = "stopped"
              /\ jreceived' = jreceived /\ Len(jsendq') >= Len(jsendq)
              /\ JSONFileSame
      ]_vars

\* Both sinks have stopped after a write failure with records still offered,
\* and the process runs: a logging call made after the failures has been served
\* up to its send.
C13_Witness ==
    /\ "write" \in diag /\ "writeJSON" \in diag /\ Running
    /\ Len(received) = 1 /\ Len(tasks) = 2 /\ tasks[2].pc = "send"
    /\ jsendq # <<>>

---------------------------------------------------------------------------
(* C14 *)

\* The step in which a failed Close is first reported.
CloseFailureStep == "close" \in diag' /\ "close" \notin diag

\* C14: a failure to close the file of a record whose write succeeded is
\* reported and the consumer goes back to its receive; from then on the
\* records are still written in hand-over order, and once all producers
\* have handed over, all their records get written.
C14_CloseFailureContinues ==
    /\ [][CloseFailureStep =>
              /\ wpc = "close" /\ wpc' = "recv" /\ ~fopen'
              /\ Len(written) = Len(received) /\ written[Len(written)].rec = m
              /\ proc' = proc]_vars
    /\ []("close" \in diag =>
              /\ wpc # "stopped"
              /\ \A k \in 1..Len(written) : written[k].rec = received[k]
              /\ (wpc = "recv" /\ sendq # <<>> /\ Running) => ENABLED Receive)
    /\ [](("close" \in diag /\ AllSubmitted) => <>[]AllWrittenOnce)

\* The second record has been written after the close of the first failed.
C14_Witness ==
    /\ "close" \in diag /\ wpc = "close" /\ Len(written) = 2
    /\ written[2].rec = received[2]

---------------------------------------------------------------------------
(* C15 *)

\* C15: the writer keeps no file handle across records: whenever a sink's
\* consumer is waiting to dequeue a record (or has not reached its loop yet),
\* or has left its loop, it holds no open file.
C15_NoHandleOutsideCycle ==
    /\ wpc \in {"setup", "recv", "stopped"} => ~fopen
    /\ jpc \in {"none", "setup", "recv", "stopped"} => ~jfopen

---------------------------------------------------------------------------
(* C16 *)

EmittedSeverities == {"debug", "info", "warn", "error", "report"}

\* The records that exist: built by a producer goroutine, taken by the
\* consumer, written to a file.
ConstructedRecords ==
    {tasks[i].log : i \in {j \in TaskIds : tasks[j].pc \in {"send", "done", "panicked"}}}
    \cup {received[k] : k \in 1..Len(received)}
    \cup {written[k].rec : k \in 1..Len(written)}
    \cup (IF wpc \in {"open", "write", "close", "stopped"} THEN {m} ELSE {})

\* C16: every record that is on the sink channel or written to a file, and
\* every record constructed at all, carries a severity among debug, info,
\* warn, error and report (the name of the level of its call); none carries
\* the severity null.
C16_SeverityNeverNull ==
    /\ \A rec \in ConstructedRecords :
          rec.Sev \in EmittedSeverities /\ rec.Sev # levelMap(snap)[NullLevel(snap)]
    /\ \A i \in TaskIds :
          tasks[i].pc \in {"send", "done", "panicked"} =>
              /\ tasks[i].level # NullLevel(snap)
              /\ tasks[i].log.Sev = levelMap(snap)[tasks[i].level]

\* A report record and another record have been written after a context
\* update.
C16_Witness ==
    /\ nupd = 1 /\ Len(written) = 2
    /\ written[1].rec.Sev = "report" /\ written[2].rec.Sev = "error"

---------------------------------------------------------------------------
(* C17 *)

\* The goroutine of call i has not run yet and will pass the filter and
\* reach the send.
WillPass(i) ==
    /\ tasks[i].pc = "spawned"
    /\ ~Suppressed(logger, tasks[i].level)
    /\ ~(HasPrefix(tasks[i].msg, "GENERIC") /\ SliceFrom8Panics(tasks[i].msg))

\* C17: two calls made one after the other on the same Logger, both passing
\* the filter, need not reach the sink in call order: while the goroutine of
\* the earlier call has not run, the goroutine of the later one can run and
\* reach the send first; a record the consumer has taken belongs to a
\* goroutine that has passed its send, whatever the number of its call.
C17_LaterCallCanGoFirst ==
    /\ \A i, j \in TaskIds :
          (Running /\ i < j /\ WillPass(i) /\ WillPass(j)) => ENABLED ParseLog(j)
    /\ \A k \in 1..Len(received) :
          \A i \in TaskIds :
              (tasks[i].pc = "send" \/ tasks[i].pc = "spawned")
                  => received[k].UnixTimeStamp # tasks[i].t

\* The record of the second call has been handed over and written to the
\* file before the record of the first call, which follows it in that file.
C17_Witness ==
    /\ Len(tasks) = 2 /\ Len(written) = 2
    /\ written[1].rec.UnixTimeStamp = tasks[2].t
    /\ written[2].rec.UnixTimeStamp = tasks[1].t
    /\ written[1].file = written[2].file
    /\ Len(files[written[1].file]) = 2

---------------------------------------------------------------------------
(* C18 *)

\* The step in which the goroutine of call i runs parseLog.
Runs(i) == tasks[i].pc = "spawned" /\ tasks'[i].pc # "spawned"

\* C18: a record's message and instant are the ones captured by the logging
\* call, while its id, turn, function and name, and the threshold its call
\* is filtered with, are the Logger's values in the state in which the
\* spawned goroutine runs, whatever they were when the call was made.
C18_ContextReadAtRun ==
    [][\A i \in TaskIds :
          /\ tasks'[i].msg = tasks[i].msg /\ tasks'[i].t = tasks[i].t
          /\ tasks'[i].level = tasks[i].level
          /\ Runs(i) =>
                /\ tasks'[i].pc = "returned" <=> logger.level > tasks[i].level
                /\ tasks'[i].pc \in {"send", "panicked"} =>
                      LET rec     == tasks'[i].log
                          generic == tasks'[i].pc = "send"
                                     /\ HasPrefix(tasks[i].msg, "GENERIC")
                      IN  /\ rec.UnixTimeStamp = UnixNano(tasks[i].t)
                          /\ rec.Msg = IF generic THEN SliceFrom8(tasks[i].msg)
                                       ELSE tasks[i].msg
                          /\ rec.ID = IF generic THEN "" ELSE logger.id
                          /\ snap # "idfile" =>
                                /\ rec.Timestamp = Format(tasks[i].t)
                                /\ rec.Turn = logger.currentTurn
                                /\ rec.Function = logger.currentFunc
                          /\ snap = "namefile" => rec.SnakeName = logger.name
      ]_vars

\* The owner has made its one context update, UpdateID("g1").  The record of
\* the later call j carries the old id, so its goroutine ran before the
\* update, hence the update came after both calls had returned; the record
\* of the earlier call i carries the new id: it was built after the update.
C18_Witness ==
    /\ MaxUpdates = 1 /\ nupd = 1 /\ logger.id = "g1"
    /\ \E i, j \in TaskIds :
          /\ i < j
          /\ Enqueued(i) /\ Enqueued(j)
          /\ tasks[i].msg = "boom" /\ tasks[j].msg = "boom"
          /\ tasks[i].log.ID = "g1" /\ tasks[j].log.ID = ""

---------------------------------------------------------------------------
(* C19 *)

\* C19: in the snapshot that starts the JSON sink no logging call sends on
\* writeJSONChan: no sender ever waits on it, its consumer has received
\* nothing and is at most waiting for its first record, and the JSON file
\* has been neither created nor written.
C19_JSONSinkIdle ==
    snap = "jsonsink" =>
        /\ jsendq = <<>> /\ jreceived = <<>>
        /\ jpc \in {"setup", "recv"}
        /\ ~jfopen
        /\ JSONFile(home) \notin DOMAIN files
        /\ \A k \in 1..Len(written) : written[k].file # JSONFile(home)

\* Two passing logging calls have been served by the text sink while the
\* JSON consumer waits.
C19_Witness ==
    /\ snap = "jsonsink" /\ jpc = "recv"
    /\ Len(written) = 2 /\ wpc = "recv"
    /\ \A i \in TaskIds : tasks[i].pc = "done"

---------------------------------------------------------------------------
(* C20 *)

\* C20: the send on the unbuffered, never closed channel completes only in
\* the consumer's receive of that very record; once the consumer has left
\* its loop after a write failure, every goroutine at the send stays there,
\* its record is never written, and each further passing call adds one more
\* blocked goroutine to the channel's queue.
C20_BlockedForever ==
    [][ /\ \A i \in TaskIds :
              (tasks[i].pc # "done" /\ tasks'[i].pc = "done") =>
                  /\ tasks[i].pc = "send" /\ sendq # <<>> /\ Head(sendq) = i
                  /\ wpc = "recv" /\ wpc' = "open"
                  /\ received' = Append(received, tasks[i].log)
        /\ ("write" \in diag /\ wpc = "stopped") =>
              /\ wpc' = "stopped" /\ written' = written /\ received' = received
              /\ Len(sendq') >= Len(sendq) /\ SubSeq(sendq', 1, Len(sendq)) = sendq
              /\ \A i \in TaskIds :
                    /\ tasks[i].pc = "send" =>
                          /\ tasks'[i].pc = "send"
                          /\ \A k \in 1..Len(written) :
                                written[k].rec.UnixTimeStamp # tasks[i].t
                    /\ (WillPass(i) /\ Runs(i)) =>
                          tasks'[i].pc = "send" /\ sendq' = Append(sendq, i)
      ]_vars

\* The write of the first record failed; the goroutine of the second call
\* reached the send and waits in the queue of a channel nobody receives from.
C20_Witness ==
    /\ Running /\ "write" \in diag /\ wpc = "stopped"
    /\ written = <<>> /\ Len(received) = 1
    /\ sendq = <<2>> /\ tasks[2].pc = "send" /\ tasks[1].pc = "done"

=============================================================================
